---- MODULE Spec2Model ----
(***************************************************************************)
(* A model of routers/mac_address.py: the MAC-address search and top-10    *)
(* endpoints, the MAC formatter _fmt_mac and the filter builder            *)
(* _build_conditions.                                                      *)
(*                                                                         *)
(* Representation.  A Python str is a sequence of one-character strings.   *)
(* A nullable value (a SQL NULL, a Python None, a pandas NaN/NaT) is an    *)
(* option: None is the empty tuple and Some(v) the one-element tuple.      *)
(* Dates and timestamps are day numbers.                                   *)
(***************************************************************************)
EXTENDS Integers, Sequences, FiniteSets, TLC

VARIABLES
    tables,           \* names of the tables for which table_exists() is true
    kpi_charges_mac,  \* rows of table kpi_charges_mac, in storage order
    kpi_sessions,     \* rows of table kpi_sessions
    kpi_mac_id,       \* rows of table kpi_mac_id, in storage order
    request,          \* the call being served: handler or function, and arguments
    df,               \* what query_df returned to the last handler call
    query_calls,      \* number of query_df calls the last handler call made
    response          \* what the last call returned

vars == <<tables, kpi_charges_mac, kpi_sessions, kpi_mac_id,
          request, df, query_calls, response>>

\* no call is being served; nothing has been returned
NoRequest == [op |-> "none"]
NoResponse == [kind |-> "none"]

None == <<>>
Some(v) == <<v>>
IsNone(o) == o = <<>>
Val(o) == o[1]

(***************************************************************************)
(* Strings                                                                 *)
(***************************************************************************)
UpperLetters == <<"A", "B", "C", "D", "E", "F", "N", "O", "X", "Z">>
LowerLetters == <<"a", "b", "c", "d", "e", "f", "n", "o", "x", "z">>
Digits == {"0", "1", "2", "3", "4", "5", "6", "7", "8", "9"}
HexLower == Digits \cup {"a", "b", "c", "d", "e", "f"}
HexUpper == Digits \cup {"A", "B", "C", "D", "E", "F"}
Whitespace == {" "}

\* str.lower() and str.upper(), one character
LowerChar(c) ==
    IF \E i \in 1..Len(UpperLetters) : UpperLetters[i] = c
    THEN LowerLetters[CHOOSE i \in 1..Len(UpperLetters) : UpperLetters[i] = c]
    ELSE c

UpperChar(c) ==
    IF \E i \in 1..Len(LowerLetters) : LowerLetters[i] = c
    THEN UpperLetters[CHOOSE i \in 1..Len(LowerLetters) : LowerLetters[i] = c]
    ELSE c

lower(s) == [i \in 1..Len(s) |-> LowerChar(s[i])]
upper(s) == [i \in 1..Len(s) |-> UpperChar(s[i])]

\* str.strip(): leading and trailing whitespace removed
RECURSIVE lstrip(_)
lstrip(s) == IF s # <<>> /\ s[1] \in Whitespace THEN lstrip(Tail(s)) ELSE s

RECURSIVE rstrip(_)
rstrip(s) ==
    IF s # <<>> /\ s[Len(s)] \in Whitespace
    THEN rstrip(SubSeq(s, 1, Len(s) - 1))
    ELSE s

strip(s) == rstrip(lstrip(s))

\* str.replace("0x", ""): every non-overlapping occurrence, left to right
RECURSIVE replace_0x(_)
replace_0x(s) ==
    IF Len(s) < 2 THEN s
    ELSE IF s[1] = "0" /\ s[2] = "x" THEN replace_0x(SubSeq(s, 3, Len(s)))
    ELSE <<s[1]>> \o replace_0x(Tail(s))

\* re.sub(r"[^0-9a-f]", "", s)
IsHexLower(c) == c \in HexLower
sub_non_hex(s) == SelectSeq(s, IsHexLower)

\* ":".join(parts)
RECURSIVE join(_, _)
join(sep, parts) ==
    IF parts = <<>> THEN <<>>
    ELSE IF Len(parts) = 1 THEN parts[1]
    ELSE parts[1] \o sep \o join(sep, Tail(parts))

\* mutant of contains: an empty needle matches nothing
contains_nonempty(hay, needle) ==
    /\ needle # <<>>
    /\ \E i \in 0..(Len(hay) - Len(needle)) :
        SubSeq(hay, i + 1, i + Len(needle)) = needle

\* needle in haystack (str.contains with a pattern of hex characters only)
contains(hay, needle) ==
    \E i \in 0..(Len(hay) - Len(needle)) :
        SubSeq(hay, i + 1, i + Len(needle)) = needle

(***************************************************************************)
(* _fmt_mac                                                                *)
(***************************************************************************)
MacHexLen == 12

\* s[i:i+2] for i in range(0, 12, 2)
MacChunks(s) == [k \in 1..(MacHexLen \div 2) |-> SubSeq(s, 2 * k - 1, 2 * k)]

\* mutant of _fmt_mac: the fallback returns the stripped text, not the raw input
_fmt_mac_stripped(mac) ==
    IF IsNone(mac) \/ Val(mac) = <<>> THEN <<>>
    ELSE LET s == sub_non_hex(replace_0x(lower(strip(Val(mac)))))
         IN  IF Len(s) >= MacHexLen
             THEN upper(join(<<":">>, MacChunks(s)))
             ELSE upper(s)

_fmt_mac(mac) ==
    IF IsNone(mac) \/ Val(mac) = <<>> THEN <<>>
    ELSE LET s == sub_non_hex(replace_0x(lower(strip(Val(mac)))))
         IN  IF Len(s) >= MacHexLen
             THEN upper(join(<<":">>, MacChunks(s)))
             ELSE upper(Val(mac))

(***************************************************************************)
(* _build_conditions                                                       *)
(*                                                                         *)
(* SQL text is a sequence of tokens.  A token is a piece of SQL written by *)
(* the program (kind "sql"), a named placeholder :name (kind "param") or a *)
(* value spliced into the text (kind "literal").  The parameter mapping    *)
(* is a function from placeholder names to values.                         *)
(***************************************************************************)
Sql(text) == [kind |-> "sql", text |-> text]
Param(name) == [kind |-> "param", text |-> name]
Literal(value) == [kind |-> "literal", text |-> value]

\* str(date): the ISO text of a date, which the database reads back as that date
DateStr(d) == [iso |-> d]

\* s.split(",")
RECURSIVE split_comma(_)
split_comma(s) ==
    IF \E i \in 1..Len(s) : s[i] = ","
    THEN LET i == CHOOSE j \in 1..Len(s) :
                      s[j] = "," /\ \A k \in 1..(j - 1) : s[k] # ","
         IN  <<SubSeq(s, 1, i - 1)>> \o split_comma(SubSeq(s, i + 1, Len(s)))
    ELSE <<s>>

\* [s.strip() for s in sites.split(",") if s.strip()]
NonEmpty(s) == s # <<>>
site_list(sites) ==
    LET parts == split_comma(sites)
    IN  SelectSeq([i \in 1..Len(parts) |-> strip(parts[i])], NonEmpty)

\* the name site_<i>, i counted from 0
SiteParam(i) == "site_" \o ToString(i)

\* ",".join([f":site_{i}" for i in range(n)])
RECURSIVE placeholders(_)
placeholders(n) ==
    IF n = 0 THEN <<>>
    ELSE IF n = 1 THEN <<Param(SiteParam(0))>>
    ELSE placeholders(n - 1) \o <<Sql(","), Param(SiteParam(n - 1))>>

\* the clause f"{prefix}Site IN ({placeholders})"
SiteClause(prefix, sl) ==
    <<Sql(prefix \o "Site"), Sql("IN"), Sql("(")>>
        \o placeholders(Len(sl)) \o <<Sql(")")>>

\* mutant of conditions_of: the site clause is appended before the date clauses
conditions_sites_first(sites, date_debut, date_fin, table_alias) ==
    LET prefix == IF table_alias # "" THEN table_alias \o "." ELSE ""
        sl == IF sites # <<>> THEN site_list(sites) ELSE <<>>
    IN  <<  <<Sql("1=1")>>  >>
        \o (IF sl # <<>> THEN <<SiteClause(prefix, sl)>> ELSE <<>>)
        \o (IF ~IsNone(date_debut)
            THEN << <<Sql(prefix \o "Datetime start"), Sql(">="),
                      Param("date_debut")>> >>
            ELSE <<>>)
        \o (IF ~IsNone(date_fin)
            THEN << <<Sql(prefix \o "Datetime start"), Sql("<"),
                      Sql("DATE_ADD("), Param("date_fin"),
                      Sql(", INTERVAL 1 DAY)")>> >>
            ELSE <<>>)

\* the list `conditions` as the function leaves it
conditions_of(sites, date_debut, date_fin, table_alias) ==
    LET prefix == IF table_alias # "" THEN table_alias \o "." ELSE ""
        sl == IF sites # <<>> THEN site_list(sites) ELSE <<>>
    IN  <<  <<Sql("1=1")>>  >>
        \o (IF ~IsNone(date_debut)
            THEN << <<Sql(prefix \o "Datetime start"), Sql(">="),
                      Param("date_debut")>> >>
            ELSE <<>>)
        \o (IF ~IsNone(date_fin)
            THEN << <<Sql(prefix \o "Datetime start"), Sql("<"),
                      Sql("DATE_ADD("), Param("date_fin"),
                      Sql(", INTERVAL 1 DAY)")>> >>
            ELSE <<>>)
        \o (IF sl # <<>> THEN <<SiteClause(prefix, sl)>> ELSE <<>>)

\* the dict `params` as the function leaves it
params_of(sites, date_debut, date_fin) ==
    LET sl == IF sites # <<>> THEN site_list(sites) ELSE <<>>
        names == (IF ~IsNone(date_debut) THEN {"date_debut"} ELSE {})
                 \cup (IF ~IsNone(date_fin) THEN {"date_fin"} ELSE {})
                 \cup {SiteParam(i) : i \in 0..(Len(sl) - 1)}
    IN  [n \in names |->
            IF n = "date_debut" THEN DateStr(Val(date_debut))
            ELSE IF n = "date_fin" THEN DateStr(Val(date_fin))
            ELSE LET i == CHOOSE j \in 0..(Len(sl) - 1) : SiteParam(j) = n
                 IN  sl[i + 1]]

\* returns (" AND ".join(conditions), params)
_build_conditions(sites, date_debut, date_fin, table_alias) ==
    [where |-> join(<<Sql("AND")>>,
                    conditions_of(sites, date_debut, date_fin, table_alias)),
     params |-> params_of(sites, date_debut, date_fin)]

(***************************************************************************)
(* The database: table_exists and query_df (module db)                     *)
(*                                                                         *)
(* A timestamp counts half days: day d starts at 2*d and has its noon at   *)
(* 2*d + 1.                                                                *)
(***************************************************************************)
DayStart(d) == 2 * d

\* mutant of table_exists: every table is reported to exist
table_exists_always(name) == TRUE

table_exists(name) == name \in tables

\* the text between two " AND "
RECURSIVE split_and(_)
split_and(toks) ==
    IF \E i \in 1..Len(toks) : toks[i] = Sql("AND")
    THEN LET i == CHOOSE j \in 1..Len(toks) :
                      toks[j] = Sql("AND") /\ \A k \in 1..(j - 1) : toks[k] # Sql("AND")
         IN  <<SubSeq(toks, 1, i - 1)>> \o split_and(SubSeq(toks, i + 1, Len(toks)))
    ELSE <<toks>>

\* the values an IN (...) list names: bound parameters, or spliced literals
InValues(clause, params) ==
    {params[clause[i].text] : i \in {j \in 4..Len(clause) : clause[j].kind = "param"}}
    \cup {clause[i].text : i \in {j \in 4..Len(clause) : clause[j].kind = "literal"}}

\* one clause of the WHERE of search_mac, on a row c of kpi_charges_mac
\* (a comparison with NULL is not true)
ClauseHolds(clause, params, c) ==
    IF clause = <<Sql("1=1")>> THEN TRUE
    ELSE IF clause[2] = Sql(">=")
    THEN /\ ~IsNone(c.Datetime_start)
         /\ Val(c.Datetime_start) >= DayStart(params[clause[3].text].iso)
    ELSE IF clause[2] = Sql("<")
    THEN /\ ~IsNone(c.Datetime_start)
         /\ Val(c.Datetime_start) < DayStart(params[clause[4].text].iso + 1)
    ELSE /\ clause[2] = Sql("IN")
         /\ ~IsNone(c.Site)
         /\ Val(c.Site) \in InValues(clause, params)

WhereHolds(where, params, c) ==
    LET clauses == split_and(where)
    IN  \A i \in 1..Len(clauses) : ClauseHolds(clauses[i], params, c)

\* COALESCE(a, b)
COALESCE(a, b) == IF ~IsNone(a) THEN a ELSE b

\* mutant of JoinedRow: PDC, end time and energy fall back on the charge row too
JoinedRow_fallback(c, s) ==
    [ID             |-> c.ID,
     Site           |-> COALESCE(s.Site, c.Site),
     PDC            |-> COALESCE(s.PDC, c.PDC),
     Datetime_start |-> c.Datetime_start,
     Datetime_end   |-> COALESCE(s.Datetime_end, c.Datetime_end),
     Energy         |-> COALESCE(s.Energy, c.Energy),
     mac            |-> c.MAC_Address,
     Vehicle        |-> c.Vehicle,
     SOC_Start      |-> COALESCE(s.SOC_Start, c.SOC_Start),
     SOC_End        |-> COALESCE(s.SOC_End, c.SOC_End),
     is_ok          |-> s.is_ok]

\* the SELECT list of search_mac on a charge row c joined with a session row s
JoinedRow(c, s) ==
    [ID             |-> c.ID,
     Site           |-> COALESCE(s.Site, c.Site),
     PDC            |-> s.PDC,
     Datetime_start |-> c.Datetime_start,
     Datetime_end   |-> s.Datetime_end,
     Energy         |-> s.Energy,
     mac            |-> c.MAC_Address,
     Vehicle        |-> c.Vehicle,
     SOC_Start      |-> COALESCE(s.SOC_Start, c.SOC_Start),
     SOC_End        |-> COALESCE(s.SOC_End, c.SOC_End),
     is_ok          |-> s.is_ok]

\* the session side of a charge row that no session row matches: all NULL
NullSession ==
    [ID |-> None, Site |-> None, PDC |-> None, Datetime_end |-> None,
     Energy |-> None, SOC_Start |-> None, SOC_End |-> None, is_ok |-> None]

\* kpi_charges_mac c LEFT JOIN kpi_sessions s ON c.ID = s.ID, for one row c
LeftJoin(c) ==
    LET match == SelectSeq(kpi_sessions, LAMBDA s : s.ID = Some(c.ID))
    IN  IF match = <<>> THEN <<JoinedRow(c, NullSession)>>
        ELSE [i \in 1..Len(match) |-> JoinedRow(c, match[i])]

\* query_df(sql, params) for the statement of search_mac
RECURSIVE SearchRows(_, _, _)
SearchRows(cs, where, params) ==
    IF cs = <<>> THEN <<>>
    ELSE (IF WhereHolds(where, params, cs[1]) THEN LeftJoin(cs[1]) ELSE <<>>)
         \o SearchRows(Tail(cs), where, params)

query_df_search(where, params) == SearchRows(kpi_charges_mac, where, params)

(***************************************************************************)
(* search_mac                                                              *)
(***************************************************************************)
BASE_CHARGE_URL == "https://elto.nidec-asi-online.com/Charge/detail?id="

\* the first tick pandas can hold: pd.to_datetime(errors="coerce") turns an
\* earlier (out of bounds) date-time into NaT
TimestampMin == 1

to_datetime(v) ==
    IF IsNone(v) \/ Val(v) < TimestampMin THEN None ELSE v

\* pd.to_numeric(errors="coerce") on a column of numbers and NULLs
to_numeric(v) == v

\* df["mac"].astype(str): None becomes the text "None" (pandas before 3.0)
astype_str(v) == IF IsNone(v) THEN <<"N", "o", "n", "e">> ELSE Val(v)

\* the column mac_norm of a fetched row
row_mac_norm(r) == sub_non_hex(replace_0x(lower(astype_str(r.mac))))

\* mac_norm of the query
query_mac_norm(mac_query) == sub_non_hex(replace_0x(lower(strip(mac_query))))

\* mutant of too_short: the length is taken before trimming
too_short_untrimmed(mac_query) == mac_query = <<>> \/ Len(mac_query) < 2

\* not mac_query or len(mac_query.strip()) < 2
too_short(mac_query) == mac_query = <<>> \/ Len(strip(mac_query)) < 2

\* mutant of is_ok_of: fillna(1), an absent indicator counts as ok
is_ok_of_fillna1(v) == (IF IsNone(v) THEN 1 ELSE Val(v)) # 0

\* df["is_ok"].fillna(0).astype(bool)
is_ok_of(v) == (IF IsNone(v) THEN 0 ELSE Val(v)) # 0

\* f"{int(round(s0))}% -> {int(round(s1))}%", "" unless both are present
_format_soc_evolution(s0, s1) ==
    IF ~IsNone(s0) /\ ~IsNone(s1)
    THEN ToString(Val(s0)) \o "% -> " \o ToString(Val(s1)) \o "%"
    ELSE ""

elto_link_of(id) == BASE_CHARGE_URL \o ToString(id)

\* a row of df after the column conversions and the derived columns; index is
\* the row's label in the frame, its position in what query_df returned
Processed(r, i) ==
    [index          |-> i,
     ID             |-> r.ID,
     Site           |-> r.Site,
     PDC            |-> r.PDC,
     Datetime_start |-> to_datetime(r.Datetime_start),
     Datetime_end   |-> to_datetime(r.Datetime_end),
     Energy         |-> to_numeric(r.Energy),
     mac            |-> r.mac,
     Vehicle        |-> r.Vehicle,
     SOC_Start      |-> to_numeric(r.SOC_Start),
     SOC_End        |-> to_numeric(r.SOC_End),
     is_ok          |-> is_ok_of(r.is_ok),
     mac_formatted  |-> _fmt_mac(r.mac),
     evolution_soc  |-> _format_soc_evolution(to_numeric(r.SOC_Start),
                                              to_numeric(r.SOC_End)),
     elto_link      |-> elto_link_of(r.ID)]

\* df[df["mac_norm"].str.contains(mac_norm, na=False)], then the conversions
MacFiltered(fetched, mac_norm) ==
    LET idx == SelectSeq([i \in 1..Len(fetched) |-> i],
                         LAMBDA i : contains(row_mac_norm(fetched[i]), mac_norm))
    IN  [k \in 1..Len(idx) |-> Processed(fetched[idx[k]], idx[k])]

\* df[display_cols].to_dict("records"), one row
Display(r) ==
    [Site           |-> r.Site,
     PDC            |-> r.PDC,
     Datetime_start |-> r.Datetime_start,
     Datetime_end   |-> r.Datetime_end,
     evolution_soc  |-> r.evolution_soc,
     mac_formatted  |-> r.mac_formatted,
     Vehicle        |-> r.Vehicle,
     Energy         |-> r.Energy,
     elto_link      |-> r.elto_link]

\* mutant of success_rate_of: the rate is cut, not rounded
success_rate_truncated(ok_count, total) ==
    IF total = 0 THEN 0 ELSE (1000 * ok_count) \div total

\* round(ok_count / total * 100, 1) if total else 0, in tenths of a percent
\* (round half to even)
success_rate_of(ok_count, total) ==
    IF total = 0 THEN 0
    ELSE LET q == (1000 * ok_count) \div total
             r == (1000 * ok_count) % total
         IN  IF 2 * r > total THEN q + 1
             ELSE IF 2 * r < total THEN q
             ELSE IF q % 2 = 0 THEN q ELSE q + 1

Perms(n) == {p \in [1..n -> 1..n] : \A i, j \in 1..n : p[i] = p[j] => i = j}

\* mutant of sort_values: ascending=True
sort_values_ascending(frame) ==
    {[i \in 1..Len(frame) |-> frame[p[i]]] : p \in
        {p \in Perms(Len(frame)) :
            \A i, j \in 1..Len(frame) :
                i < j =>
                    LET a == frame[p[i]].Datetime_start
                        b == frame[p[j]].Datetime_start
                    IN  /\ ~IsNone(a) /\ ~IsNone(b) => Val(a) <= Val(b)
                        /\ IsNone(a) => IsNone(b)
                        /\ IsNone(a) /\ IsNone(b) => p[i] < p[j]}}

\* frame.sort_values("Datetime start", ascending=False): the default kind is
\* quicksort, which is documented as not stable (which ties it reorders depends
\* on the numpy build and the length of the frame), so rows with equal start
\* times may come out in any order; NaT rows are set apart before the sort and
\* appended last in the order they had
sort_values(frame) ==
    {[i \in 1..Len(frame) |-> frame[p[i]]] : p \in
        {p \in Perms(Len(frame)) :
            \A i, j \in 1..Len(frame) :
                i < j =>
                    LET a == frame[p[i]].Datetime_start
                        b == frame[p[j]].Datetime_start
                    IN  /\ ~IsNone(a) /\ ~IsNone(b) => Val(a) >= Val(b)
                        /\ IsNone(a) => IsNone(b)
                        /\ IsNone(a) /\ IsNone(b) => p[i] < p[j]}}

MacTemplate == "partials/mac_search.html"

\* GET /mac-address/search
search_mac(sites, date_debut, date_fin, mac_query) ==
    /\ request = NoRequest
    /\ request' = [op |-> "search_mac", sites |-> sites, date_debut |-> date_debut,
                   date_fin |-> date_fin, mac_query |-> mac_query]
    /\ IF ~table_exists("kpi_charges_mac")
       THEN /\ df' = <<>>
            /\ query_calls' = 0
            /\ response' = [template |-> MacTemplate, kind |-> "error",
                            error |-> "Table kpi_charges_mac non disponible",
                            mac_query |-> mac_query]
       ELSE IF too_short(mac_query)
       THEN /\ df' = <<>>
            /\ query_calls' = 0
            /\ response' = [template |-> MacTemplate, kind |-> "prompt",
                            prompt |-> "Saisissez au moins 2 caracteres d'une adresse MAC",
                            mac_query |-> mac_query]
       ELSE LET mac_norm == query_mac_norm(mac_query)
                built == _build_conditions(sites, date_debut, date_fin, "c")
                fetched == query_df_search(built.where, built.params)
                kept == MacFiltered(fetched, mac_norm)
            IN  /\ df' = fetched
                /\ query_calls' = 1
                /\ IF fetched = <<>>
                   THEN response' = [template |-> MacTemplate, kind |-> "no_data",
                                     mac_query |-> mac_query]
                   ELSE IF kept = <<>>
                   THEN response' = [template |-> MacTemplate, kind |-> "no_results",
                                     mac_query |-> mac_query]
                   ELSE LET total == Len(kept)
                            df_ok == SelectSeq(kept, LAMBDA r : r.is_ok)
                            df_nok == SelectSeq(kept, LAMBDA r : ~r.is_ok)
                            ok_count == Len(df_ok)
                        IN  \E s_ok \in sort_values(df_ok), s_nok \in sort_values(df_nok) :
                                response' =
                                    [template |-> MacTemplate, kind |-> "result",
                                     mac_query |-> mac_query,
                                     total |-> total,
                                     ok_count |-> ok_count,
                                     nok_count |-> total - ok_count,
                                     success_rate |-> success_rate_of(ok_count, total),
                                     ok_rows |-> [i \in 1..Len(s_ok) |-> Display(s_ok[i])],
                                     nok_rows |-> [i \in 1..Len(s_nok) |-> Display(s_nok[i])]]
    /\ UNCHANGED <<tables, kpi_charges_mac, kpi_sessions, kpi_mac_id>>

(***************************************************************************)
(* get_top10_unidentified and get_mac_address_tab                          *)
(***************************************************************************)
Top10Limit == 10

\* a row put in its place in rows already in descending order of
\* nombre_de_charges, after the rows of the same count
RECURSIVE InsertDesc(_, _)
InsertDesc(sorted, r) ==
    IF sorted = <<>> THEN <<r>>
    ELSE IF sorted[1].nombre_de_charges >= r.nombre_de_charges
    THEN <<sorted[1]>> \o InsertDesc(Tail(sorted), r)
    ELSE <<r>> \o sorted

RECURSIVE OrderByDesc(_)
OrderByDesc(rows) ==
    IF rows = <<>> THEN <<>>
    ELSE InsertDesc(OrderByDesc(SubSeq(rows, 1, Len(rows) - 1)), rows[Len(rows)])

Reverse(rows) == [i \in 1..Len(rows) |-> rows[Len(rows) + 1 - i]]

\* SELECT Mac, nombre_de_charges, taux_reussite FROM kpi_mac_id
\* ORDER BY nombre_de_charges DESC LIMIT 10: the database is free in the order
\* of rows of equal count; the two outcomes kept are storage order and its reverse
query_df_top10 ==
    LET lim(rows) == SubSeq(rows, 1, IF Len(rows) < Top10Limit THEN Len(rows)
                                     ELSE Top10Limit)
    IN  {lim(OrderByDesc(kpi_mac_id)), lim(OrderByDesc(Reverse(kpi_mac_id)))}

\* mutant of Ranked: ranks counted from 0
Ranked_from_zero(fetched) ==
    [i \in 1..Len(fetched) |->
        [Rang              |-> i - 1,
         Mac               |-> _fmt_mac(fetched[i].Mac),
         nombre_de_charges |-> fetched[i].nombre_de_charges,
         taux_reussite     |-> fetched[i].taux_reussite]]

\* df["Mac"].apply(_fmt_mac); df.insert(0, "Rang", range(1, len(df) + 1))
Ranked(fetched) ==
    [i \in 1..Len(fetched) |->
        [Rang              |-> i,
         Mac               |-> _fmt_mac(fetched[i].Mac),
         nombre_de_charges |-> fetched[i].nombre_de_charges,
         taux_reussite     |-> fetched[i].taux_reussite]]

Top10Template == "partials/mac_top10.html"

\* GET /mac-address/top10
get_top10_unidentified(sites, date_debut, date_fin) ==
    /\ request = NoRequest
    /\ request' = [op |-> "get_top10_unidentified", sites |-> sites,
                   date_debut |-> date_debut, date_fin |-> date_fin]
    /\ IF ~table_exists("kpi_mac_id")
       THEN /\ df' = <<>>
            /\ query_calls' = 0
            /\ response' = [template |-> Top10Template, kind |-> "error",
                            error |-> "Table kpi_mac_id non disponible"]
       ELSE \E fetched \in query_df_top10 :
                /\ df' = fetched
                /\ query_calls' = 1
                /\ response' = IF fetched = <<>>
                               THEN [template |-> Top10Template, kind |-> "no_data"]
                               ELSE [template |-> Top10Template, kind |-> "rows",
                                     rows |-> Ranked(fetched)]
    /\ UNCHANGED <<tables, kpi_charges_mac, kpi_sessions, kpi_mac_id>>

\* GET /mac-address
get_mac_address_tab(sites, date_debut, date_fin) ==
    /\ request = NoRequest
    /\ request' = [op |-> "get_mac_address_tab", sites |-> sites,
                   date_debut |-> date_debut, date_fin |-> date_fin]
    /\ df' = <<>>
    /\ query_calls' = 0
    /\ response' = [template |-> "partials/mac_address.html", kind |-> "shell"]
    /\ UNCHANGED <<tables, kpi_charges_mac, kpi_sessions, kpi_mac_id>>

(***************************************************************************)
(* Inputs and stored data                                                  *)
(***************************************************************************)
MaxCharges == 2
MaxSortRows == 3
MaxMacRows == 11
MaxSegments == 6
MaxSitesLen == 4

RECURSIVE Flatten(_)
Flatten(ss) == IF ss = <<>> THEN <<>> ELSE ss[1] \o Flatten(Tail(ss))

SeqsUpTo(S, n) == UNION {[1..k -> S] : k \in 0..n}

\* raw MAC values as stored
MacDashed == Some(<<"A", "A", "-", "B", "B", "-", "C", "C", "-", "D", "D", "-", "E", "E", "-", "F", "F">>)
MacPrefixed == Some(<<"0", "x", "a", "a", "b", "b", "c", "c", "d", "d", "e", "e", "0", "1", "2", "3">>)
MacShort == Some(<<"a", "b", "1">>)
MacOther == Some(<<"1", "2", ":", "3", "4">>)

\* a stored session row, but for its ID
SessionFull(ok) ==
    [Site |-> Some(<<"S">>), PDC |-> Some(<<"P", "1">>), Datetime_end |-> Some(7),
     Energy |-> Some(30), SOC_Start |-> Some(10), SOC_End |-> Some(90),
     is_ok |-> Some(ok)]
SessionNulls ==
    [Site |-> None, PDC |-> None, Datetime_end |-> None, Energy |-> None,
     SOC_Start |-> None, SOC_End |-> None, is_ok |-> None]
SessionPartial ==
    [Site |-> None, PDC |-> Some(<<"P", "2">>), Datetime_end |-> None,
     Energy |-> Some(12), SOC_Start |-> Some(15), SOC_End |-> None,
     is_ok |-> Some(1)]

\* a stored charge row, but for its ID, with the session rows of the same ID
Charge(site, start, mac, sessions) ==
    [Site |-> site, PDC |-> Some(<<"P", "9">>), Datetime_start |-> start,
     Datetime_end |-> Some(8), Energy |-> Some(44), MAC_Address |-> mac,
     Vehicle |-> Some(<<"Z", "O", "E">>), SOC_Start |-> Some(20),
     SOC_End |-> Some(80), sessions |-> sessions]

ChargeKinds ==
    {Charge(Some(<<"A">>), Some(2), MacDashed, <<>>),
     Charge(Some(<<"B">>), Some(5), MacPrefixed, <<SessionFull(1)>>),
     Charge(Some(<<"A">>), Some(3), MacShort, <<SessionFull(0)>>),
     Charge(None, None, None, <<SessionNulls>>),
     Charge(Some(<<"B">>), Some(0), MacOther, <<SessionPartial>>),
     Charge(Some(<<"A">>), Some(4), MacDashed, <<SessionNulls>>)}

SortKinds ==
    {Charge(Some(<<"A">>), start,
            IF start = Some(5) /\ sessions = <<>> THEN MacOther ELSE MacShort,
            sessions) :
        start \in {None, Some(0), Some(4), Some(5)},
        sessions \in {<<>>, <<SessionFull(1)>>, <<SessionFull(0)>>}}

\* the two tables a sequence of kinds stands for: row i gets ID i
ChargesOf(kinds) ==
    [i \in 1..Len(kinds) |->
        [ID |-> i, Site |-> kinds[i].Site, PDC |-> kinds[i].PDC,
         Datetime_start |-> kinds[i].Datetime_start,
         Datetime_end |-> kinds[i].Datetime_end, Energy |-> kinds[i].Energy,
         MAC_Address |-> kinds[i].MAC_Address, Vehicle |-> kinds[i].Vehicle,
         SOC_Start |-> kinds[i].SOC_Start, SOC_End |-> kinds[i].SOC_End]]

SessionsOf(kinds) ==
    Flatten([i \in 1..Len(kinds) |->
        [k \in 1..Len(kinds[i].sessions) |->
            LET s == kinds[i].sessions[k]
            IN  [ID |-> Some(i), Site |-> s.Site, PDC |-> s.PDC,
                 Datetime_end |-> s.Datetime_end, Energy |-> s.Energy,
                 SOC_Start |-> s.SOC_Start, SOC_End |-> s.SOC_End,
                 is_ok |-> s.is_ok]]])

\* request arguments
SitesArgs == {<<>>, <<"A">>, <<" ", "B", ",">>}
DateDebutArgs == {None, Some(2)}
DateFinArgs == {None, Some(1)}
MacQueries ==
    {<<>>, <<"a">>, <<" ", "a", " ">>, <<"A", "b">>, <<"z", "z">>, <<"0", "x">>,
     <<"9", "9">>}
SortQueries == {<<"a", "b">>, <<"0", "x", "1">>}

\* rows of kpi_mac_id: n rows whose counts follow the pattern <<a, b, m>>
MacPool == <<MacDashed, MacPrefixed, MacShort, None>>
MacIdRows(n, pat) ==
    [i \in 1..n |->
        [Mac               |-> MacPool[(i % Len(MacPool)) + 1],
         nombre_de_charges |-> (i * pat[1] + pat[2]) % pat[3],
         taux_reussite     |-> IF i % 3 = 0 THEN None ELSE Some((i * 10) % 101)]]
MacIdPatterns == {1, 2, 3} \X {0, 1} \X {3, 5}

\* segments the inputs of _fmt_mac are made of
MacSegments == {<<"a", "B", "3", "c", "9", "F">>, <<"0">>, <<"X">>, <<"-">>, <<" ">>}
FmtInputs == {None} \cup {Some(Flatten(ss)) : ss \in SeqsUpTo(MacSegments, MaxSegments)}

\* arguments of _build_conditions
SitesChars == {"A", "B", ",", " "}
CondSites == SeqsUpTo(SitesChars, MaxSitesLen)
CondDates == {None, Some(1), Some(2)}
CondAliases == {"", "c"}

(***************************************************************************)
(* Specifications                                                          *)
(***************************************************************************)
Idle ==
    /\ request = NoRequest
    /\ df = <<>>
    /\ query_calls = 0
    /\ response = NoResponse

\* the search tables hold up to MaxCharges charges; kpi_mac_id is missing
Init ==
    /\ \E kinds \in SeqsUpTo(ChargeKinds, MaxCharges) :
        /\ tables \in {{}, {"kpi_charges_mac", "kpi_sessions"}}
        /\ tables = {} => kinds = <<>>
        /\ kpi_charges_mac = ChargesOf(kinds)
        /\ kpi_sessions = SessionsOf(kinds)
    /\ kpi_mac_id = <<>>
    /\ Idle

\* the aggregate table holds up to MaxMacRows rows; the search tables are empty
InitTop ==
    /\ \E n \in 0..MaxMacRows, pat \in MacIdPatterns :
        /\ tables \in {{"kpi_charges_mac", "kpi_sessions"},
                       {"kpi_charges_mac", "kpi_sessions", "kpi_mac_id"}}
        /\ "kpi_mac_id" \notin tables => n = 0
        /\ kpi_mac_id = MacIdRows(n, pat)
    /\ kpi_charges_mac = <<>>
    /\ kpi_sessions = <<>>
    /\ Idle

\* up to MaxSortRows charges that differ in start time and session
InitSort ==
    /\ \E kinds \in SeqsUpTo(SortKinds, MaxSortRows) :
        /\ kpi_charges_mac = ChargesOf(kinds)
        /\ kpi_sessions = SessionsOf(kinds)
    /\ tables = {"kpi_charges_mac", "kpi_sessions"}
    /\ kpi_mac_id = <<>>
    /\ Idle

\* the response has been rendered and sent: the call is over
Return ==
    /\ request # NoRequest
    /\ request' = NoRequest
    /\ df' = <<>>
    /\ query_calls' = 0
    /\ response' = NoResponse
    /\ UNCHANGED <<tables, kpi_charges_mac, kpi_sessions, kpi_mac_id>>

Next ==
    \/ \E sites \in SitesArgs, date_debut \in DateDebutArgs,
          date_fin \in DateFinArgs, mac_query \in MacQueries :
            search_mac(sites, date_debut, date_fin, mac_query)
    \/ \E sites \in SitesArgs, date_debut \in DateDebutArgs, date_fin \in DateFinArgs :
            get_top10_unidentified(sites, date_debut, date_fin)
    \/ \E sites \in SitesArgs, date_debut \in DateDebutArgs, date_fin \in DateFinArgs :
            get_mac_address_tab(sites, date_debut, date_fin)
    \/ Return

NextSort ==
    \/ \E mac_query \in SortQueries : search_mac(<<>>, None, None, mac_query)
    \/ Return

Spec == Init /\ [][Next]_vars
SpecTop == InitTop /\ [][Next]_vars
SpecSort == InitSort /\ [][NextSort]_vars

\* one call of _fmt_mac on each input
InitFmt ==
    /\ tables = {} /\ kpi_charges_mac = <<>> /\ kpi_sessions = <<>> /\ kpi_mac_id = <<>>
    /\ df = <<>> /\ query_calls = 0
    /\ \E mac \in FmtInputs : request = [op |-> "_fmt_mac", mac |-> mac]
    /\ response = NoResponse

FmtMac ==
    /\ request.op = "_fmt_mac"
    /\ response = NoResponse
    /\ response' = [kind |-> "value", value |-> _fmt_mac(request.mac)]
    /\ UNCHANGED <<tables, kpi_charges_mac, kpi_sessions, kpi_mac_id,
                   request, df, query_calls>>

SpecFmt == InitFmt /\ [][FmtMac]_vars

\* one call of _build_conditions on each input
InitCond ==
    /\ tables = {} /\ kpi_charges_mac = <<>> /\ kpi_sessions = <<>> /\ kpi_mac_id = <<>>
    /\ df = <<>> /\ query_calls = 0
    /\ \E sites \in CondSites, date_debut \in CondDates, date_fin \in CondDates,
          table_alias \in CondAliases :
            request = [op |-> "_build_conditions", sites |-> sites,
                       date_debut |-> date_debut, date_fin |-> date_fin,
                       table_alias |-> table_alias]
    /\ response = NoResponse

BuildConditions ==
    /\ request.op = "_build_conditions"
    /\ response = NoResponse
    /\ response' = [kind |-> "value",
                    value |-> _build_conditions(request.sites, request.date_debut,
                                                request.date_fin, request.table_alias)]
    /\ UNCHANGED <<tables, kpi_charges_mac, kpi_sessions, kpi_mac_id,
                   request, df, query_calls>>

SpecCond == InitCond /\ [][BuildConditions]_vars

(***************************************************************************)
(* Properties                                                              *)
(***************************************************************************)
Searched == request.op = "search_mac"
Succeeded == Searched /\ response.kind = "result"

\* the row of charge `id` is listed in `rows`
Listed(rows, id) == \E k \in 1..Len(rows) : rows[k].elto_link = elto_link_of(id)

\* the position in df of a listed row
FetchIndex(row) == CHOOSE i \in 1..Len(df) : elto_link_of(df[i].ID) = row.elto_link

\* the hexadecimal characters of a text once lowercased and rid of every "0x":
\* the characters that are in [0-9a-f] and belong to no adjacent pair "0x"
HexOf(text) ==
    LET l == lower(text)
        in0x(i) == \/ i < Len(l) /\ l[i] = "0" /\ l[i + 1] = "x"
                   \/ i > 1 /\ l[i - 1] = "0" /\ l[i] = "x"
        keep == SelectSeq([i \in 1..Len(l) |-> i],
                          LAMBDA i : ~in0x(i) /\ l[i] \in HexLower)
    IN  [k \in 1..Len(keep) |-> l[keep[k]]]

\* the trimmed length of a text: its length without the spaces before its
\* first and after its last other character
TrimmedLen(text) ==
    LET solid == {i \in 1..Len(text) : text[i] # " "}
    IN  IF solid = {} THEN 0
        ELSE (CHOOSE i \in solid : \A j \in solid : j <= i)
             - (CHOOSE i \in solid : \A j \in solid : j >= i) + 1

\* a fetched row survives the MAC filter: it is listed in one of the two lists
Survives(i) ==
    Listed(response.ok_rows, df[i].ID) \/ Listed(response.nok_rows, df[i].ID)

\* C1 as stated: in a successful search a surviving row whose success indicator
\* is absent is ok: it is listed in ok_rows, not in nok_rows, and ok_count
\* counts the rows of ok_rows.
C1_AbsentIsOk ==
    Succeeded =>
        /\ response.ok_count = Len(response.ok_rows)
        /\ \A i \in 1..Len(df) :
            Survives(i) /\ IsNone(df[i].is_ok) =>
                /\ Listed(response.ok_rows, df[i].ID)
                /\ ~Listed(response.nok_rows, df[i].ID)

\* C1 amended: in a successful search a surviving row is ok exactly when its
\* success indicator is present and not zero; a row whose indicator is absent
\* (no session row, or a NULL is_ok) is listed in nok_rows, not in ok_rows, and
\* counted in nok_count.
C1_AbsentIsNotOk ==
    Succeeded =>
        /\ response.ok_count = Len(response.ok_rows)
        /\ response.nok_count = Len(response.nok_rows)
        /\ \A i \in 1..Len(df) :
            Survives(i) =>
                LET ok == ~IsNone(df[i].is_ok) /\ Val(df[i].is_ok) # 0
                IN  /\ Listed(response.ok_rows, df[i].ID) <=> ok
                    /\ Listed(response.nok_rows, df[i].ID) <=> ~ok

C1_Witness ==
    /\ Succeeded
    /\ \E i, k \in 1..Len(df) :
        /\ \A n \in 1..Len(kpi_sessions) : kpi_sessions[n].ID # Some(df[i].ID)
        /\ IsNone(df[i].is_ok) /\ Listed(response.nok_rows, df[i].ID)
        /\ \E n \in 1..Len(kpi_sessions) :
            kpi_sessions[n].ID = Some(df[k].ID) /\ IsNone(kpi_sessions[n].is_ok)
        /\ Listed(response.nok_rows, df[k].ID)
        /\ response.nok_count = 2 /\ response.ok_count = 0

\* the charge row and the session rows a fetched row was joined from
ChargeOf(r) == kpi_charges_mac[CHOOSE n \in 1..Len(kpi_charges_mac) :
                                   kpi_charges_mac[n].ID = r.ID]
SessionsFor(r) == {n \in 1..Len(kpi_sessions) : kpi_sessions[n].ID = Some(r.ID)}
Fetched == Searched /\ query_calls = 1

\* C2 as stated: each fetched row joins a charge row with the optional session
\* row of the same ID, and Site, PDC, end time, energy and SOC end are each the
\* session's value when the session row has one and the charge's otherwise.
C2_SessionElseCharge ==
    Fetched =>
        \A i \in 1..Len(df) :
            LET c == ChargeOf(df[i])
                pick(sv, cv) == IF ~IsNone(sv) THEN sv ELSE cv
            IN  IF SessionsFor(df[i]) = {}
                THEN /\ df[i].Site = c.Site
                     /\ df[i].PDC = c.PDC
                     /\ df[i].Datetime_end = c.Datetime_end
                     /\ df[i].Energy = c.Energy
                     /\ df[i].SOC_End = c.SOC_End
                ELSE \E n \in SessionsFor(df[i]) :
                     LET s == kpi_sessions[n]
                     IN  /\ df[i].Site = pick(s.Site, c.Site)
                         /\ df[i].PDC = pick(s.PDC, c.PDC)
                         /\ df[i].Datetime_end = pick(s.Datetime_end, c.Datetime_end)
                         /\ df[i].Energy = pick(s.Energy, c.Energy)
                         /\ df[i].SOC_End = pick(s.SOC_End, c.SOC_End)

\* C2 amended: each fetched row joins a charge row with the optional session
\* row of the same ID (a charge without one is fetched once); Site, SOC start
\* and SOC end are the session's value when it has one and the charge's
\* otherwise; PDC, end time and energy are the session's value alone, absent
\* when there is no session row or its value is NULL, whatever the charge holds.
C2_LeftJoinColumns ==
    Fetched =>
        /\ \A i \in 1..Len(df) :
            LET c == ChargeOf(df[i])
                pick(sv, cv) == IF ~IsNone(sv) THEN sv ELSE cv
            IN  /\ \E n \in 1..Len(kpi_charges_mac) : kpi_charges_mac[n].ID = df[i].ID
                /\ df[i].Datetime_start = c.Datetime_start
                /\ df[i].mac = c.MAC_Address
                /\ IF SessionsFor(df[i]) = {}
                   THEN /\ df[i].Site = c.Site
                        /\ df[i].SOC_Start = c.SOC_Start
                        /\ df[i].SOC_End = c.SOC_End
                        /\ IsNone(df[i].PDC)
                        /\ IsNone(df[i].Datetime_end)
                        /\ IsNone(df[i].Energy)
                        /\ IsNone(df[i].is_ok)
                   ELSE \E n \in SessionsFor(df[i]) :
                        LET s == kpi_sessions[n]
                        IN  /\ df[i].Site = pick(s.Site, c.Site)
                            /\ df[i].SOC_Start = pick(s.SOC_Start, c.SOC_Start)
                            /\ df[i].SOC_End = pick(s.SOC_End, c.SOC_End)
                            /\ df[i].PDC = s.PDC
                            /\ df[i].Datetime_end = s.Datetime_end
                            /\ df[i].Energy = s.Energy
                            /\ df[i].is_ok = s.is_ok
        /\ (request.sites = <<>> /\ IsNone(request.date_debut)
                /\ IsNone(request.date_fin)) =>
            \A n \in 1..Len(kpi_charges_mac) :
                \E i \in 1..Len(df) : df[i].ID = kpi_charges_mac[n].ID

C2_Witness ==
    /\ Fetched
    /\ \E i, j \in 1..Len(df) :
        /\ SessionsFor(df[i]) = {}
        /\ ~IsNone(ChargeOf(df[i]).PDC) /\ IsNone(df[i].PDC)
        /\ SessionsFor(df[j]) # {}
        /\ \E n \in SessionsFor(df[j]) :
            /\ IsNone(kpi_sessions[n].Site) /\ df[j].Site = ChargeOf(df[j]).Site
            /\ ~IsNone(kpi_sessions[n].PDC) /\ df[j].PDC = kpi_sessions[n].PDC
            /\ IsNone(kpi_sessions[n].Datetime_end) /\ IsNone(df[j].Datetime_end)

\* C3 as stated: a search whose query has trimmed length below 2 ends in the
\* prompt for more input, whatever the tables hold or whether they exist.
C3_ShortAlwaysPrompts ==
    Searched /\ TrimmedLen(request.mac_query) < 2 => response.kind = "prompt"

\* C3 amended: a search whose query has trimmed length below 2 ends in the
\* prompt for more input whenever table kpi_charges_mac exists, whatever the
\* sites, the dates and the stored data; when the table is missing it ends in
\* the table-unavailable error instead.
C3_ShortPromptsIfTable ==
    Searched /\ TrimmedLen(request.mac_query) < 2 =>
        /\ "kpi_charges_mac" \in tables => response.kind = "prompt"
        /\ "kpi_charges_mac" \notin tables => response.kind = "error"

C3_Witness ==
    /\ Searched
    /\ TrimmedLen(request.mac_query) = 1 /\ Len(request.mac_query) > 2
    /\ Len(kpi_charges_mac) = MaxCharges
    /\ request.sites # <<>> /\ ~IsNone(request.date_debut)
    /\ response.kind = "prompt"

\* the normalized MAC of fetched row i contains the normalized query
Matches(i) == contains(HexOf(astype_str(df[i].mac)), HexOf(request.mac_query))

\* the outcome the order of the checks calls for
ExpectedKind ==
    IF "kpi_charges_mac" \notin tables THEN "error"
    ELSE IF TrimmedLen(request.mac_query) < 2 THEN "prompt"
    ELSE IF df = <<>> THEN "no_data"
    ELSE IF \A i \in 1..Len(df) : ~Matches(i) THEN "no_results"
    ELSE "result"

\* C4: a search ends in exactly one of five outcomes, chosen in this order:
\* table unavailable, input too short, no data for the filters, no match for
\* the MAC, success; query_df is not called in the first two and is called
\* exactly once in the others.
C4_OutcomeOrder ==
    Searched =>
        /\ response.kind \in {"error", "prompt", "no_data", "no_results", "result"}
        /\ response.kind = ExpectedKind
        /\ query_calls = IF response.kind \in {"error", "prompt"} THEN 0 ELSE 1

C4_Witness ==
    /\ Searched
    /\ response.kind = "no_results"
    /\ Len(df) = MaxCharges
    /\ query_calls = 1

\* C5: in a successful search total is the number of rows left after the MAC
\* filter, total = ok_count + nok_count, 0 <= ok_count <= total, and
\* success_rate (in tenths of a percent) is 100 * ok_count / total rounded to
\* one decimal, between 0 and 100, and 0 when total is 0.
C5_Statistics ==
    Succeeded =>
        /\ response.total = Cardinality({i \in 1..Len(df) : Matches(i)})
        /\ response.total = Len(response.ok_rows) + Len(response.nok_rows)
        /\ response.total = response.ok_count + response.nok_count
        /\ 0 <= response.ok_count /\ response.ok_count <= response.total
        /\ 0 <= response.success_rate /\ response.success_rate <= 1000
        /\ response.total = 0 => response.success_rate = 0
        /\ response.total > 0 =>
            LET err == response.success_rate * response.total
                       - 1000 * response.ok_count
            IN  2 * err <= response.total /\ -2 * err <= response.total

C5_Witness ==
    /\ Succeeded
    /\ response.total = 3 /\ response.ok_count = 2 /\ response.nok_count = 1
    /\ response.success_rate = 667

\* start times never ascend down the list, and a row without one comes after
\* every row that has one
Descending(rows) ==
    \A a, b \in 1..Len(rows) :
        a < b =>
            /\ (~IsNone(rows[a].Datetime_start) /\ ~IsNone(rows[b].Datetime_start))
                => Val(rows[a].Datetime_start) >= Val(rows[b].Datetime_start)
            /\ IsNone(rows[a].Datetime_start) => IsNone(rows[b].Datetime_start)

\* rows of equal start time are listed in the order query_df returned them
StableTies(rows) ==
    \A a, b \in 1..Len(rows) :
        (a < b /\ ~IsNone(rows[a].Datetime_start)
               /\ rows[a].Datetime_start = rows[b].Datetime_start)
            => FetchIndex(rows[a]) < FetchIndex(rows[b])

\* rows without a start time are listed in the order query_df returned them
StableAbsent(rows) ==
    \A a, b \in 1..Len(rows) :
        (a < b /\ IsNone(rows[a].Datetime_start) /\ IsNone(rows[b].Datetime_start))
            => FetchIndex(rows[a]) < FetchIndex(rows[b])

\* C9 as stated: in a successful search ok_rows and nok_rows are each in
\* descending order of start time, rows without a start time last, and rows of
\* equal start time in the order the fetch returned them.
C9_SortedStable ==
    Succeeded =>
        /\ Descending(response.ok_rows) /\ StableTies(response.ok_rows)
        /\ Descending(response.nok_rows) /\ StableTies(response.nok_rows)

\* C9 amended: in a successful search ok_rows and nok_rows are each in
\* descending order of start time, and every row without a (parseable) start
\* time comes after all rows that have one, these in the order the fetch
\* returned them; rows of equal start time come in no guaranteed order.
C9_SortedDescending ==
    Succeeded =>
        /\ Descending(response.ok_rows) /\ StableAbsent(response.ok_rows)
        /\ Descending(response.nok_rows) /\ StableAbsent(response.nok_rows)

C9_Witness ==
    /\ Succeeded
    /\ Len(response.nok_rows) = 3
    /\ response.nok_rows[1].Datetime_start = Some(4)
    /\ response.nok_rows[2].Datetime_start = Some(4)
    /\ FetchIndex(response.nok_rows[1]) > FetchIndex(response.nok_rows[2])
    /\ IsNone(response.nok_rows[3].Datetime_start)
    /\ df[FetchIndex(response.nok_rows[3])].Datetime_start = Some(0)
    /\ FetchIndex(response.nok_rows[3]) = 1

\* C10: the length guard reads the trimmed query, not its normalized form: a
\* query of trimmed length 2 or more without any hexadecimal character once
\* lowercased and rid of "0x" matches every fetched row, so that a non-empty
\* fetch ends in success with total the number of fetched rows, never in
\* no-match-for-MAC.
C10_EmptyNormMatchesAll ==
    (/\ Searched
     /\ "kpi_charges_mac" \in tables
     /\ TrimmedLen(request.mac_query) >= 2
     /\ HexOf(request.mac_query) = <<>>) =>
        /\ response.kind # "no_results" /\ response.kind # "prompt"
        /\ df # <<>> =>
            /\ response.kind = "result"
            /\ response.total = Len(df)
            /\ \A i \in 1..Len(df) : Survives(i)

C10_Witness ==
    /\ Succeeded
    /\ request.mac_query = <<"0", "x">>
    /\ Len(df) = MaxCharges
    /\ \E i \in 1..Len(df) : IsNone(df[i].mac)
    /\ response.total = Len(df)

Formatted == request.op = "_fmt_mac" /\ response.kind = "value"

\* C6: _fmt_mac returns the empty string for a null or empty input; otherwise,
\* with h the input trimmed, lowercased, rid of "0x" and of every character
\* outside [0-9a-f]: when h has 12 characters or more, the first 12 of them
\* uppercased, in 6 pairs joined by ":" (17 characters, the rest of h ignored);
\* when h has fewer, the raw input uppercased, spaces and separators kept.
C6_FmtMac ==
    Formatted =>
        LET raw == request.mac
            out == response.value
        IN  IF IsNone(raw) \/ Val(raw) = <<>> THEN out = <<>>
            ELSE LET h == HexOf(Val(raw))
                 IN  IF Len(h) >= 12
                     THEN /\ Len(out) = 17
                          /\ \A k \in 1..17 :
                                IF k % 3 = 0 THEN out[k] = ":"
                                ELSE /\ out[k] \in HexUpper
                                     /\ out[k] = UpperChar(h[k - (k \div 3)])
                     ELSE /\ Len(out) = Len(Val(raw))
                          /\ \A k \in 1..Len(out) : out[k] = UpperChar(Val(raw)[k])

C6_Witness ==
    /\ Formatted
    /\ ~IsNone(request.mac)
    /\ Len(HexOf(Val(request.mac))) > 12
    /\ \E k \in 1..(Len(Val(request.mac)) - 1) :
        Val(request.mac)[k] = "0" /\ Val(request.mac)[k + 1] = "X"
    /\ Val(request.mac)[1] = " "
    /\ Len(response.value) = 17

Built == request.op = "_build_conditions" /\ response.kind = "value"

\* C7: _build_conditions returns the base clause 1=1 followed, joined by AND
\* and in this order, by the start-date clause iff date_debut is given, the
\* end-date clause (start before date_fin + 1 day) iff date_fin is given, and
\* the site IN clause iff sites has a non-empty trimmed entry; the parameters
\* are one per given date and one per such entry, in order, and the predicate
\* holds placeholders only, never a site value.
C7_BuildConditions ==
    Built =>
        LET clauses == split_and(response.value.where)
            params == response.value.params
            entries == site_list(request.sites)
            hasStart == ~IsNone(request.date_debut)
            hasEnd == ~IsNone(request.date_fin)
            hasSites == entries # <<>>
            nStart == IF hasStart THEN 1 ELSE 0
            nEnd == IF hasEnd THEN 1 ELSE 0
            nSites == IF hasSites THEN 1 ELSE 0
            names(clause) == {clause[i].text :
                                i \in {j \in 1..Len(clause) : clause[j].kind = "param"}}
        IN  /\ \A i \in 1..Len(response.value.where) :
                response.value.where[i].kind \in {"sql", "param"}
            /\ Len(clauses) = 1 + nStart + nEnd + nSites
            /\ clauses[1] = <<Sql("1=1")>>
            /\ hasStart =>
                /\ clauses[2][2] = Sql(">=")
                /\ names(clauses[2]) = {"date_debut"}
                /\ params["date_debut"] = DateStr(Val(request.date_debut))
            /\ hasEnd =>
                /\ clauses[2 + nStart][2] = Sql("<")
                /\ clauses[2 + nStart][3] = Sql("DATE_ADD(")
                /\ clauses[2 + nStart][5] = Sql(", INTERVAL 1 DAY)")
                /\ names(clauses[2 + nStart]) = {"date_fin"}
                /\ params["date_fin"] = DateStr(Val(request.date_fin))
            /\ hasSites =>
                LET c == clauses[2 + nStart + nEnd]
                IN  /\ c[2] = Sql("IN")
                    /\ Cardinality({j \in 1..Len(c) : c[j].kind = "param"})
                        = Len(entries)
                    /\ names(c) = {SiteParam(i - 1) : i \in 1..Len(entries)}
                    /\ \A i \in 1..Len(entries) :
                        /\ params[SiteParam(i - 1)] = entries[i]
                        /\ entries[i] # <<>>
                        /\ \A k \in 1..Len(entries[i]) : entries[i][k] # ","
                        /\ entries[i][1] # " " /\ entries[i][Len(entries[i])] # " "
            /\ Cardinality(DOMAIN params) = nStart + nEnd + Len(entries)
            /\ (\A k \in 1..Len(request.sites) : request.sites[k] \in {",", " "})
                => ~hasSites

C7_Witness ==
    /\ Built
    /\ request.sites = <<"A", ",", " ", "B">>
    /\ ~IsNone(request.date_debut) /\ ~IsNone(request.date_fin)
    /\ Cardinality(DOMAIN response.value.params) = 4
    /\ Len(split_and(response.value.where)) = 4

Ranking == request.op = "get_top10_unidentified"

\* C8: get_top10_unidentified returns table unavailable without fetching when
\* kpi_mac_id is missing, no data when the fetch is empty, and otherwise the
\* fetched rows (the first 10 of the whole table by descending count, whatever
\* sites and dates the request carries) in the order fetched, the i-th with
\* rank i and its MAC formatted for display.
C8_Top10 ==
    Ranking =>
        IF "kpi_mac_id" \notin tables
        THEN response.kind = "error" /\ query_calls = 0
        ELSE /\ query_calls = 1
             /\ Len(df) = IF Len(kpi_mac_id) < 10 THEN Len(kpi_mac_id) ELSE 10
             /\ \A i \in 1..Len(df) :
                    /\ \E n \in 1..Len(kpi_mac_id) : kpi_mac_id[n] = df[i]
                    /\ \A n \in 1..Len(kpi_mac_id) :
                        kpi_mac_id[n].nombre_de_charges > df[i].nombre_de_charges
                            => \E j \in 1..(i - 1) : df[j] = kpi_mac_id[n]
             /\ IF df = <<>> THEN response.kind = "no_data"
                ELSE /\ response.kind = "rows"
                     /\ Len(response.rows) = Len(df)
                     /\ \A i \in 1..Len(df) :
                            /\ response.rows[i].Rang = i
                            /\ response.rows[i].nombre_de_charges
                                = df[i].nombre_de_charges
                            /\ response.rows[i].taux_reussite = df[i].taux_reussite
                            /\ response.rows[i].Mac = _fmt_mac(df[i].Mac)

C8_Witness ==
    /\ Ranking
    /\ response.kind = "rows"
    /\ Len(kpi_mac_id) = MaxMacRows
    /\ Len(response.rows) = 10
    /\ request.sites # <<>> /\ ~IsNone(request.date_debut) /\ ~IsNone(request.date_fin)
    /\ response.rows[10].Rang = 10
    /\ \E i \in 1..9 : response.rows[i].nombre_de_charges
                        = response.rows[i + 1].nombre_de_charges

====
